---- MODULE Spec2Model ----
(***************************************************************************)
(* A model of bsq (src/bsq.cc): binary search of a key in a sorted,        *)
(* delimiter-separated text file, and the companion sortedness check.      *)
(*                                                                         *)
(* Bytes are their integer codes.  A position in the mapped file is its    *)
(* offset from config.first, so config.first is 0 and config.last is       *)
(* Len(buf); the byte at offset p is buf[p + 1].                           *)
(***************************************************************************)
EXTENDS Integers, Sequences, FiniteSets

VARIABLES
  buf,      \* the mapped file [config.first, config.last)
  config,   \* Config: check, exact_match, fold, col
  keys,     \* main's search_keys
  ki,       \* index in keys of the key Run is called with
  pc,       \* where the program stands: call, check, search, emit, done, error
  lb,       \* Run's lb
  ub,       \* Run's ub
  col_pos,  \* Run's col_pos, as left by the last row resolution
  prev,     \* the check loop's prev
  out,      \* the bytes written to std::cout
  err,      \* the exception caught by main: its kind and the row it carries
  probes,   \* rows resolved by the binary search loop of the current Run
  cmp,      \* operands and results of a StringBlock comparison
  scan      \* a pivot and window, and the row resolved at them

vars == <<buf, config, keys, ki, pc, lb, ub, col_pos, prev, out, err, probes,
          cmp, scan>>

(***************************************************************************)
(* Bounds of the model and constants of the program.                       *)
(***************************************************************************)
MaxBufLen == 4
MaxKeyLen == 2
MaxStrLen == 3
MaxKeys == 2
MaxSeqBufLen == 3
MaxCheckBufLen == 6

col_sep == 9
row_sep == 10

Letters == {97, 66}
KeyLetters == {97, 65, 66}
BufBytes == {col_sep, row_sep} \cup Letters
Cols == {1, 2}

RECURSIVE SeqsUpTo(_, _)
SeqsUpTo(S, n) ==
  IF n = 0 THEN {<<>>}
  ELSE LET shorter == SeqsUpTo(S, n - 1)
       IN  shorter \cup {Append(s, c) : s \in {t \in shorter : Len(t) = n - 1}, c \in S}

Buffers == SeqsUpTo(BufBytes, MaxBufLen)
CheckBuffers == SeqsUpTo(BufBytes, MaxCheckBufLen)
SeqBuffers == SeqsUpTo(BufBytes, MaxSeqBufLen)
Keys == SeqsUpTo(KeyLetters, MaxKeyLen)
SeqKeys == {<<>>, <<65>>, <<66>>}
KeyLists == UNION {[1..n -> SeqKeys] : n \in 1..MaxKeys}
Strs == SeqsUpTo(KeyLetters \cup Letters, MaxStrLen)
Configs == [check : BOOLEAN, exact_match : BOOLEAN, fold : BOOLEAN, col : Cols]

(***************************************************************************)
(* StringBlock                                                             *)
(***************************************************************************)
toupper(c) == IF c >= 97 /\ c <= 122 THEN c - 32 ELSE c

Transform(fold, c) == IF fold THEN toupper(c) ELSE c

\* StringBlock::Compare from positions i of a and of b on (1-based): the
\* loop advances both positions together.
RECURSIVE CompareFrom(_, _, _, _)
CompareFrom(a, b, i, fold) ==
  IF i <= Len(a) /\ i <= Len(b)
  THEN IF Transform(fold, a[i]) = Transform(fold, b[i])
       THEN CompareFrom(a, b, i + 1, fold)
       ELSE Transform(fold, b[i]) - Transform(fold, a[i])
  ELSE (Len(b) - (i - 1)) - (Len(a) - (i - 1))

\* Compare with the operands' roles exchanged: the sign of self - other.
Compare_SelfMinusOther(a, b, fold) == CompareFrom(b, a, 1, fold)

Compare(a, b, fold) == CompareFrom(a, b, 1, fold)

RECURSIVE IsPrefixFrom(_, _, _, _)
IsPrefixFrom(a, b, i, fold) ==
  IF i <= Len(a) /\ i <= Len(b)
  THEN IF Transform(fold, a[i]) = Transform(fold, b[i])
       THEN IsPrefixFrom(a, b, i + 1, fold)
       ELSE FALSE
  ELSE i = Len(a) + 1

IsPrefixOf(a, b, fold) ==
  IF Len(a) > Len(b) THEN FALSE ELSE IsPrefixFrom(a, b, 1, fold)

(***************************************************************************)
(* Row and column resolution                                               *)
(***************************************************************************)
At(p) == buf[p + 1]

\* The bytes of the block [first, last) of the file.
Bytes(first, last) == SubSeq(buf, first + 1, last)

\* FindRowBegin: the reverse scan from pos down to lo.  The reverse iterator
\* whose base is p reads the byte at p - 1.
RECURSIVE ScanBack(_, _, _)
ScanBack(p, lo, cols) ==
  IF p = lo THEN [first |-> p, col_pos |-> cols]
  ELSE IF At(p - 1) = row_sep THEN [first |-> p, col_pos |-> cols]
  ELSE IF At(p - 1) = col_sep THEN ScanBack(p - 1, lo, <<p>> \o cols)
  ELSE ScanBack(p - 1, lo, cols)

FindRowBegin(pos, lo, cols) ==
  LET r == ScanBack(pos, lo, cols)
  IN  [first |-> r.first, col_pos |-> <<r.first>> \o r.col_pos]

\* FindRowEnd: the forward scan from pos up to hi.
RECURSIVE ScanFwd(_, _, _)
ScanFwd(p, hi, cols) ==
  IF p = hi THEN [last |-> p, col_pos |-> cols]
  ELSE IF At(p) = row_sep THEN [last |-> p, col_pos |-> cols]
  ELSE IF At(p) = col_sep THEN ScanFwd(p + 1, hi, Append(cols, p + 1))
  ELSE ScanFwd(p + 1, hi, cols)

\* FindRowEnd without the position after the row's end.
FindRowEnd_NoSentinel(pos, hi, cols) ==
  LET r == ScanFwd(pos, hi, cols)
  IN  [last |-> r.last, col_pos |-> r.col_pos]

FindRowEnd(pos, hi, cols) ==
  LET r == ScanFwd(pos, hi, cols)
  IN  [last |-> r.last, col_pos |-> Append(r.col_pos, r.last + 1)]

\* GetColumn on the deque cols (cols[i + 1] here is col_pos[i] there).
NotEnoughColumns(cols, col) == Len(cols) < col + 1

GetColumn(cols, col) == [first |-> cols[col], last |-> cols[col + 1] - 1]

\* The binary search loop's resolution of the row around pos in [lo, hi).
ResolveAt(pos, lo, hi) ==
  LET b == FindRowBegin(pos, lo, <<>>)
      e == FindRowEnd(pos, hi, b.col_pos)
  IN  [first |-> b.first, last |-> e.last, col_pos |-> e.col_pos]

\* The check and emit loops' resolution of the row that starts at lo.
ResolveFrom(lo, hi) ==
  LET e == FindRowEnd(lo, hi, <<lo>>)
  IN  [first |-> lo, last |-> e.last, col_pos |-> e.col_pos]

ColumnBytes(cols, col) ==
  LET c == GetColumn(cols, col) IN Bytes(c.first, c.last)

\* GetColumn(first, last) on a resolved row: the column's bytes, or the
\* exception with the row's bytes.
ColumnOf(r) ==
  IF NotEnoughColumns(r.col_pos, config.col)
  THEN [kind |-> "throw", bytes |-> Bytes(r.first, r.last)]
  ELSE [kind |-> "ok", bytes |-> ColumnBytes(r.col_pos, config.col)]

(***************************************************************************)
(* Run and main's loop over the keys                                       *)
(***************************************************************************)
key == keys[ki]

NoErr == [kind |-> "none", row |-> <<>>]

\* The binary search loop's body narrowing to ub = first only when the key is
\* less than the column: an upper bound search.
SearchProbe_UpperBound(l, u, k) ==
  LET pos == l + (u - l) \div 2
      r == ResolveAt(pos, l, u)
  IN  IF NotEnoughColumns(r.col_pos, config.col)
      THEN [kind |-> "throw", row |-> r, lb |-> l, ub |-> u]
      ELSE IF Compare(k, ColumnBytes(r.col_pos, config.col), config.fold) > 0
           THEN [kind |-> "step", row |-> r, lb |-> l, ub |-> r.first]
           ELSE [kind |-> "step", row |-> r, lb |-> r.last + 1, ub |-> u]

\* The binary search loop's body with lb = last in place of last + 1.
SearchProbe_NoAdvance(l, u, k) ==
  LET pos == l + (u - l) \div 2
      r == ResolveAt(pos, l, u)
  IN  IF NotEnoughColumns(r.col_pos, config.col)
      THEN [kind |-> "throw", row |-> r, lb |-> l, ub |-> u]
      ELSE IF Compare(k, ColumnBytes(r.col_pos, config.col), config.fold) >= 0
           THEN [kind |-> "step", row |-> r, lb |-> l, ub |-> r.first]
           ELSE [kind |-> "step", row |-> r, lb |-> r.last, ub |-> u]

\* The body of the binary search loop on the window [l, u) for key k: the
\* row resolved, and the window it leaves or the exception it throws.
SearchProbe(l, u, k) ==
  LET pos == l + (u - l) \div 2
      r == ResolveAt(pos, l, u)
  IN  IF NotEnoughColumns(r.col_pos, config.col)
      THEN [kind |-> "throw", row |-> r, lb |-> l, ub |-> u]
      ELSE IF Compare(k, ColumnBytes(r.col_pos, config.col), config.fold) >= 0
           THEN [kind |-> "step", row |-> r, lb |-> l, ub |-> r.first]
           ELSE [kind |-> "step", row |-> r, lb |-> r.last + 1, ub |-> u]

\* The match test ignoring exact_match: always the exact test.
IsMatch_AlwaysExact(k, column) == Compare(k, column, config.fold) = 0

IsMatch(k, column) ==
  IF config.exact_match THEN Compare(k, column, config.fold) = 0
  ELSE IsPrefixOf(k, column, config.fold)

\* The body of the emit loop on the row that starts at l.
EmitProbe(l, u, k) ==
  LET r == ResolveFrom(l, u)
  IN  IF NotEnoughColumns(r.col_pos, config.col)
      THEN [kind |-> "throw", row |-> r]
      ELSE IF IsMatch(k, ColumnBytes(r.col_pos, config.col))
           THEN [kind |-> "emit", row |-> r]
           ELSE [kind |-> "break", row |-> r]

\* The check loop's body rejecting equal key columns.
CheckProbe_StrictOrder(l, u, p) ==
  LET r == ResolveFrom(l, u)
  IN  IF NotEnoughColumns(r.col_pos, config.col)
      THEN [kind |-> "throw", what |-> "NotEnoughColumns", row |-> r]
      ELSE IF Compare(Bytes(p.first, p.last),
                      ColumnBytes(r.col_pos, config.col), config.fold) <= 0
           THEN [kind |-> "throw", what |-> "Unordered", row |-> r]
           ELSE [kind |-> "next", what |-> "none", row |-> r]

\* The check loop's body with the comparison reversed.
CheckProbe_Reversed(l, u, p) ==
  LET r == ResolveFrom(l, u)
  IN  IF NotEnoughColumns(r.col_pos, config.col)
      THEN [kind |-> "throw", what |-> "NotEnoughColumns", row |-> r]
      ELSE IF Compare(Bytes(p.first, p.last),
                      ColumnBytes(r.col_pos, config.col), config.fold) > 0
           THEN [kind |-> "throw", what |-> "Unordered", row |-> r]
           ELSE [kind |-> "next", what |-> "none", row |-> r]

\* The body of the check loop on the row that starts at l, p being prev.
CheckProbe(l, u, p) ==
  LET r == ResolveFrom(l, u)
  IN  IF NotEnoughColumns(r.col_pos, config.col)
      THEN [kind |-> "throw", what |-> "NotEnoughColumns", row |-> r]
      ELSE IF Compare(Bytes(p.first, p.last),
                      ColumnBytes(r.col_pos, config.col), config.fold) < 0
           THEN [kind |-> "throw", what |-> "Unordered", row |-> r]
           ELSE [kind |-> "next", what |-> "none", row |-> r]

\* HandleError: the exception reaches main's catch, which exits.
Throw(kind, first, last) ==
  /\ pc' = "error"
  /\ err' = [kind |-> kind, row |-> Bytes(first, last)]

\* Run returns: main's loop calls Run with the next key, or ends.
Return ==
  IF ki < Len(keys) THEN ki' = ki + 1 /\ pc' = "call"
  ELSE ki' = ki /\ pc' = "done"

\* Entry of Run without the return on an empty file.
Call_NoEarlyReturn ==
  /\ pc = "call"
  /\ lb' = 0
  /\ ub' = Len(buf)
  /\ col_pos' = <<>>
  /\ probes' = 0
  /\ prev' = [first |-> 0, last |-> 0]
  /\ pc' = IF config.check THEN "check" ELSE "search"
  /\ ki' = ki
  /\ UNCHANGED <<buf, config, keys, out, err, cmp, scan>>

\* Entry of Run with lb kept from the call before, as a static local would be.
Call_StaleLb ==
  /\ pc = "call"
  /\ IF Len(buf) = 0
     THEN /\ Return
          /\ UNCHANGED <<lb, ub, col_pos, prev, probes>>
     ELSE /\ lb' = lb
          /\ ub' = Len(buf)
          /\ col_pos' = <<>>
          /\ probes' = 0
          /\ prev' = [first |-> 0, last |-> 0]
          /\ pc' = IF config.check THEN "check" ELSE "search"
          /\ ki' = ki
  /\ UNCHANGED <<buf, config, keys, out, err, cmp, scan>>

\* Entry of Run, up to the first loop.
Call ==
  /\ pc = "call"
  /\ IF Len(buf) = 0
     THEN /\ Return
          /\ UNCHANGED <<lb, ub, col_pos, prev, probes>>
     ELSE /\ lb' = 0
          /\ ub' = Len(buf)
          /\ col_pos' = <<>>
          /\ probes' = 0
          /\ prev' = [first |-> 0, last |-> 0]
          /\ pc' = IF config.check THEN "check" ELSE "search"
          /\ ki' = ki
  /\ UNCHANGED <<buf, config, keys, out, err, cmp, scan>>

\* One iteration of the check loop.
CheckIter ==
  /\ pc = "check"
  /\ lb < ub
  /\ LET c == CheckProbe(lb, ub, prev)
     IN  /\ col_pos' = c.row.col_pos
         /\ IF c.kind = "throw"
            THEN /\ Throw(c.what, c.row.first, c.row.last)
                 /\ UNCHANGED <<lb, prev>>
            ELSE /\ lb' = c.row.last + 1
                 /\ prev' = GetColumn(c.row.col_pos, config.col)
                 /\ UNCHANGED <<pc, err>>
  /\ UNCHANGED <<buf, config, keys, ki, ub, out, probes, cmp, scan>>

\* The check loop ends and Run returns.
CheckExit ==
  /\ pc = "check"
  /\ ~(lb < ub)
  /\ Return
  /\ UNCHANGED <<buf, config, keys, lb, ub, col_pos, prev, out, err, probes,
                 cmp, scan>>

\* One iteration of the binary search loop.
SearchIter ==
  /\ pc = "search"
  /\ lb < ub
  /\ LET s == SearchProbe(lb, ub, key)
     IN  /\ col_pos' = s.row.col_pos
         /\ probes' = probes + 1
         /\ lb' = s.lb
         /\ ub' = s.ub
         /\ IF s.kind = "throw"
            THEN Throw("NotEnoughColumns", s.row.first, s.row.last)
            ELSE UNCHANGED <<pc, err>>
  /\ UNCHANGED <<buf, config, keys, ki, prev, out, cmp, scan>>

\* The binary search loop ends: ub = config.last, on to the emit loop.
SearchExit ==
  /\ pc = "search"
  /\ ~(lb < ub)
  /\ ub' = Len(buf)
  /\ pc' = "emit"
  /\ UNCHANGED <<buf, config, keys, ki, lb, col_pos, prev, out, err, probes,
                 cmp, scan>>

\* One iteration of the emit loop; on the first row that does not match the
\* loop breaks and Run returns.
EmitIter ==
  /\ pc = "emit"
  /\ lb < ub
  /\ LET e == EmitProbe(lb, ub, key)
     IN  /\ col_pos' = e.row.col_pos
         /\ IF e.kind = "throw"
            THEN /\ Throw("NotEnoughColumns", e.row.first, e.row.last)
                 /\ UNCHANGED <<lb, out, ki>>
            ELSE IF e.kind = "emit"
                 THEN /\ out' = out \o Bytes(e.row.first, e.row.last) \o <<row_sep>>
                      /\ lb' = e.row.last + 1
                      /\ UNCHANGED <<pc, err, ki>>
                 ELSE /\ Return
                      /\ UNCHANGED <<lb, out, err>>
  /\ UNCHANGED <<buf, config, keys, ub, prev, probes, cmp, scan>>

\* The emit loop ends at the end of the file and Run returns.
EmitExit ==
  /\ pc = "emit"
  /\ ~(lb < ub)
  /\ Return
  /\ UNCHANGED <<buf, config, keys, lb, ub, col_pos, prev, out, err, probes,
                 cmp, scan>>

NoCmp == [done |-> FALSE, a |-> <<>>, b |-> <<>>, fold |-> FALSE, ab |-> 0,
          ba |-> 0]
NoScan == [done |-> FALSE]

\* main's search_keys for a configuration: in check mode one empty key.
KeysFor(cfg, given) == IF cfg.check THEN {<< <<>> >>} ELSE given

\* Before the first call of Run: nothing written, nothing thrown.
Start ==
  /\ ki = 1
  /\ lb = 0
  /\ ub = 0
  /\ col_pos = <<>>
  /\ prev = [first |-> 0, last |-> 0]
  /\ out = <<>>
  /\ err = NoErr
  /\ probes = 0
  /\ cmp = NoCmp
  /\ scan = NoScan

\* main after the options are parsed and the file is mapped, with one key.
Init ==
  /\ buf \in Buffers
  /\ config \in Configs
  /\ keys \in KeysFor(config, {<<k>> : k \in Keys})
  /\ pc = "call"
  /\ Start

Next ==
  \/ Call
  \/ CheckIter
  \/ CheckExit
  \/ SearchIter
  \/ SearchExit
  \/ EmitIter
  \/ EmitExit

Spec == Init /\ [][Next]_vars

\* The same program in check mode, on longer files.
InitCheck ==
  /\ buf \in CheckBuffers
  /\ config \in {c \in Configs : c.check}
  /\ keys \in KeysFor(config, {})
  /\ pc = "call"
  /\ Start

NextCheck ==
  \/ Call
  \/ CheckIter
  \/ CheckExit

SpecCheck == InitCheck /\ [][NextCheck]_vars

\* The same program with several keys.
InitKeys ==
  /\ buf \in SeqBuffers
  /\ config \in Configs
  /\ keys \in KeysFor(config, KeyLists)
  /\ pc = "call"
  /\ Start

SpecKeys == InitKeys /\ [][Next]_vars

(***************************************************************************)
(* The whole of Run for one key, as its loops leave it                     *)
(***************************************************************************)
RECURSIVE SearchLoop(_, _, _)
SearchLoop(l, u, k) ==
  IF ~(l < u) THEN [kind |-> "ok", lb |-> l, err |-> NoErr]
  ELSE LET s == SearchProbe(l, u, k)
       IN  IF s.kind = "throw"
           THEN [kind |-> "throw", lb |-> l,
                 err |-> [kind |-> "NotEnoughColumns",
                          row |-> Bytes(s.row.first, s.row.last)]]
           ELSE SearchLoop(s.lb, s.ub, k)

RECURSIVE EmitLoop(_, _, _, _)
EmitLoop(l, u, k, written) ==
  IF ~(l < u) THEN [kind |-> "ok", out |-> written, err |-> NoErr]
  ELSE LET e == EmitProbe(l, u, k)
       IN  IF e.kind = "throw"
           THEN [kind |-> "throw", out |-> written,
                 err |-> [kind |-> "NotEnoughColumns",
                          row |-> Bytes(e.row.first, e.row.last)]]
           ELSE IF e.kind = "emit"
           THEN EmitLoop(e.row.last + 1, u, k,
                         written \o Bytes(e.row.first, e.row.last) \o <<row_sep>>)
           ELSE [kind |-> "ok", out |-> written, err |-> NoErr]

RECURSIVE CheckLoop(_, _, _)
CheckLoop(l, u, p) ==
  IF ~(l < u) THEN [kind |-> "ok", out |-> <<>>, err |-> NoErr]
  ELSE LET c == CheckProbe(l, u, p)
       IN  IF c.kind = "throw"
           THEN [kind |-> "throw", out |-> <<>>,
                 err |-> [kind |-> c.what,
                          row |-> Bytes(c.row.first, c.row.last)]]
           ELSE CheckLoop(c.row.last + 1, u, GetColumn(c.row.col_pos, config.col))

\* What Run(config, k) writes and throws when it is the only call.
Run(k) ==
  IF Len(buf) = 0 THEN [kind |-> "ok", out |-> <<>>, err |-> NoErr]
  ELSE IF config.check THEN CheckLoop(0, Len(buf), [first |-> 0, last |-> 0])
  ELSE LET s == SearchLoop(0, Len(buf), k)
       IN  IF s.kind = "throw"
           THEN [kind |-> "throw", out |-> <<>>, err |-> s.err]
           ELSE EmitLoop(s.lb, Len(buf), k, <<>>)

(***************************************************************************)
(* StringBlock::Compare on its own                                         *)
(***************************************************************************)
InitCompare ==
  /\ cmp \in [done : {FALSE}, a : Strs, b : Strs, fold : BOOLEAN, ab : {0},
              ba : {0}]
  /\ buf = <<>>
  /\ config = [check |-> FALSE, exact_match |-> FALSE, fold |-> FALSE, col |-> 1]
  /\ keys = << <<>> >>
  /\ pc = "idle"
  /\ ki = 1 /\ lb = 0 /\ ub = 0 /\ col_pos = <<>>
  /\ prev = [first |-> 0, last |-> 0]
  /\ out = <<>> /\ err = NoErr /\ probes = 0
  /\ scan = NoScan

DoCompare ==
  /\ ~cmp.done
  /\ cmp' = [cmp EXCEPT !.done = TRUE,
                        !.ab = Compare(cmp.a, cmp.b, cmp.fold),
                        !.ba = Compare(cmp.b, cmp.a, cmp.fold)]
  /\ UNCHANGED <<buf, config, keys, ki, pc, lb, ub, col_pos, prev, out, err,
                 probes, scan>>

SpecCompare == InitCompare /\ [][DoCompare]_vars

(***************************************************************************)
(* Row resolution on its own: any pivot, in any window the loops can have  *)
(***************************************************************************)
\* The bounds the loops give their windows: the start of the file, the
\* position after a row separator, the end of the file.
RowBounds ==
  {0, Len(buf)} \cup {p + 1 : p \in {q \in 0..(Len(buf) - 1) : At(q) = row_sep}}

InitScan ==
  /\ buf \in Buffers
  /\ config \in {c \in Configs : ~c.check /\ ~c.exact_match /\ ~c.fold}
  /\ keys = << <<>> >>
  /\ pc = "idle"
  /\ Start

ResolveRow ==
  /\ ~scan.done
  /\ \E pos \in 0..(Len(buf) - 1), lo \in RowBounds, hi \in RowBounds :
       /\ lo <= pos
       /\ pos < hi
       /\ LET r == ResolveAt(pos, lo, hi)
          IN  scan' = [done |-> TRUE, pos |-> pos, lo |-> lo, hi |-> hi,
                       at |-> r, from |-> ResolveFrom(r.first, hi),
                       column |-> ColumnOf(r),
                       forward |-> ColumnOf(ResolveFrom(r.first, hi))]
  /\ UNCHANGED <<buf, config, keys, ki, pc, lb, ub, col_pos, prev, out, err,
                 probes, cmp>>

SpecScan == InitScan /\ [][ResolveRow]_vars

(***************************************************************************)
(* The file as rows and columns, and the order of the key columns, stated  *)
(* without the program's scans and comparisons.                            *)
(***************************************************************************)
RECURSIVE Split(_, _)
Split(s, sep) ==
  IF \A i \in 1..Len(s) : s[i] # sep THEN <<s>>
  ELSE LET i == CHOOSE n \in 1..Len(s) :
                  s[n] = sep /\ \A m \in 1..(n - 1) : s[m] # sep
       IN  <<SubSeq(s, 1, i - 1)>> \o Split(SubSeq(s, i + 1, Len(s)), sep)

\* The rows of the file: a row separator at the end of the file ends the last
\* row and starts none.
FileRows ==
  LET parts == Split(buf, row_sep)
  IN  IF parts[Len(parts)] = <<>> THEN SubSeq(parts, 1, Len(parts) - 1)
      ELSE parts

RECURSIVE RowOffset(_, _)
RowOffset(rows, i) ==
  IF i = 1 THEN 0 ELSE RowOffset(rows, i - 1) + Len(rows[i - 1]) + 1

Columns(row) == Split(row, col_sep)
HasKeyColumn(row) == Len(Columns(row)) >= config.col
KeyColumn(row) == Columns(row)[config.col]

FoldedBy(fold, s) == [i \in 1..Len(s) |-> Transform(fold, s[i])]
Folded(s) == FoldedBy(config.fold, s)

\* a sorts strictly before b: at the first position where they differ a has
\* the smaller byte, or a ends there and b does not.
LexLess(a, b) ==
  \E i \in 1..(Len(a) + 1) :
    /\ i <= Len(b)
    /\ \A j \in 1..(i - 1) : a[j] = b[j]
    /\ i = Len(a) + 1 \/ a[i] < b[i]

KeyLess(a, b) == LexLess(Folded(a), Folded(b))
KeyEqual(a, b) == Folded(a) = Folded(b)
KeyPrefix(a, b) ==
  Len(a) <= Len(b) /\ Folded(a) = SubSeq(Folded(b), 1, Len(a))

AllRowsHaveKey == \A i \in 1..Len(FileRows) : HasKeyColumn(FileRows[i])

SortedByKey ==
  \A i \in 2..Len(FileRows) :
    ~KeyLess(KeyColumn(FileRows[i]), KeyColumn(FileRows[i - 1]))

RowMatches(row, k, exact) ==
  IF exact THEN KeyEqual(k, KeyColumn(row)) ELSE KeyPrefix(k, KeyColumn(row))

\* The matching rows among rows i.. of the file, each followed by a row
\* separator, in file order.
RECURSIVE MatchingRows(_, _, _, _)
MatchingRows(rows, i, k, exact) ==
  IF i > Len(rows) THEN <<>>
  ELSE (IF RowMatches(rows[i], k, exact) THEN rows[i] \o <<row_sep>> ELSE <<>>)
       \o MatchingRows(rows, i + 1, k, exact)

Terminated == pc \in {"done", "error"}

(***************************************************************************)
(* C1: in exact mode, on a file whose rows all have the key column and are *)
(* sorted by it, Run ends without error having written exactly the rows    *)
(* whose key column equals the key, in file order, each followed by one    *)
(* row separator.                                                          *)
(***************************************************************************)
ExactSearchCorrect ==
  (Terminated /\ ~config.check /\ config.exact_match) =>
    ((AllRowsHaveKey /\ SortedByKey) =>
       /\ pc = "done"
       /\ out = MatchingRows(FileRows, 1, key, TRUE))

\* A search in exact mode that wrote some rows and skipped others, on a file
\* with and without a final row separator.
ExactSearchWitness ==
  /\ pc = "done" /\ ~config.check /\ config.exact_match
  /\ AllRowsHaveKey /\ SortedByKey
  /\ out # <<>>
  /\ Len(out) < Len(buf)
  /\ buf[Len(buf)] # row_sep
  /\ key # <<>>
  /\ config.fold /\ config.col = 2

(***************************************************************************)
(* C2: in prefix mode, on a file whose rows all have the key column and    *)
(* are sorted by it, Run ends without error having written exactly the     *)
(* rows whose key column starts with the key, in file order.               *)
(***************************************************************************)
PrefixSearchCorrect ==
  (Terminated /\ ~config.check /\ ~config.exact_match) =>
    ((AllRowsHaveKey /\ SortedByKey) =>
       /\ pc = "done"
       /\ out = MatchingRows(FileRows, 1, key, FALSE))

\* A prefix search with a key shorter than the key column it matches, which
\* wrote some rows and skipped others.
PrefixSearchWitness ==
  /\ pc = "done" /\ ~config.check /\ ~config.exact_match
  /\ AllRowsHaveKey /\ SortedByKey
  /\ out # <<>>
  /\ Len(out) < Len(buf)
  /\ key # <<>>
  /\ \E i \in 1..Len(FileRows) :
       /\ KeyPrefix(key, KeyColumn(FileRows[i]))
       /\ ~KeyEqual(key, KeyColumn(FileRows[i]))

(***************************************************************************)
(* C7: on a sorted file whose rows all have the key column, the binary     *)
(* search loop ends with lb = ub, at the start of the first row whose key  *)
(* column is not less than the key, or at the end of the file when there   *)
(* is no such row.                                                         *)
(***************************************************************************)
LowerBound(rows, k) ==
  LET geq == {i \in 1..Len(rows) : ~KeyLess(KeyColumn(rows[i]), k)}
  IN  IF geq = {} THEN Len(buf)
      ELSE RowOffset(rows, CHOOSE i \in geq : \A j \in geq : i <= j)

SearchLoopEnded == pc = "search" /\ ~(lb < ub)

SearchEndsAtLowerBound ==
  (SearchLoopEnded /\ AllRowsHaveKey /\ SortedByKey) =>
    (lb = ub /\ lb = LowerBound(FileRows, key))

(***************************************************************************)
(* C5: on an empty file Run returns at once, for every key, key column and *)
(* flags: no loop is entered, no row is resolved, nothing is written and   *)
(* no error is raised.                                                     *)
(***************************************************************************)
EmptyBufferReturns ==
  Len(buf) = 0 =>
    /\ pc \in {"call", "done"}
    /\ out = <<>>
    /\ err = NoErr
    /\ col_pos = <<>>
    /\ probes = 0

\* Run has returned on an empty file, searching a key of two bytes in the
\* second column.
EmptyBufferWitness ==
  /\ Len(buf) = 0 /\ pc = "done"
  /\ ~config.check /\ config.exact_match /\ config.fold /\ config.col = 2
  /\ Len(key) = 2

(***************************************************************************)
(* C10: every call of Run terminates, on any file and for any key.  Each   *)
(* iteration of the binary search loop leaves a window of at most half the *)
(* bytes (rounded down), so the rows probed are at most 1 + log2 of the    *)
(* file size; each iteration of the check loop and of the emit loop moves  *)
(* lb forward or leaves the loop; and every step decreases Rank, a natural *)
(* number, so no run goes on forever.                                      *)
(***************************************************************************)
Window == IF lb < ub THEN ub - lb ELSE 0

\* Steps left, at most: of the calls of Run to come and of the current one.
Rank ==
  LET n == Len(buf)
  IN  IF Terminated THEN 0
      ELSE (Len(keys) - ki) * (3 * n + 7)
           + (CASE pc = "call" -> 3 * n + 6
                [] pc = "search" -> 2 * n + 4 + Window
                [] OTHER -> n + 2 - lb)

ProbesLogarithmic == probes >= 1 => 2 ^ (probes - 1) <= Len(buf)

Progress ==
  /\ Rank' < Rank
  /\ Rank' >= 0
  /\ (pc = "search" /\ pc' = "search") => Window' <= Window \div 2
  /\ (pc \in {"check", "emit"} /\ pc' = pc) => lb' > lb
  /\ ProbesLogarithmic'

RunTerminates == [][Progress]_vars

\* Run has ended after the binary search loop probed two rows of an unsorted
\* file and the emit loop wrote a row.
RunTerminatesWitness ==
  /\ pc = "done" /\ probes >= 2 /\ out # <<>>
  /\ AllRowsHaveKey /\ ~SortedByKey

(***************************************************************************)
(* C3: in check mode, on a file whose rows all have the key column, Run    *)
(* returns without error if and only if no row's key column is less than   *)
(* the key column of the row before it; the only error is the ordering     *)
(* error.                                                                  *)
(***************************************************************************)
CheckPassesIffSorted ==
  (Terminated /\ config.check /\ AllRowsHaveKey) =>
    /\ pc = "done" <=> SortedByKey
    /\ pc = "error" => err.kind = "Unordered"

\* The check passed on a file of three rows or more, with two equal key
\* columns in a row and a key column that extends the one before it.
CheckPassesWitness ==
  /\ pc = "done" /\ config.check /\ AllRowsHaveKey
  /\ Len(FileRows) >= 3
  /\ \E i \in 2..Len(FileRows) :
       KeyEqual(KeyColumn(FileRows[i - 1]), KeyColumn(FileRows[i]))
  /\ \E i \in 2..Len(FileRows) :
       /\ KeyPrefix(KeyColumn(FileRows[i - 1]), KeyColumn(FileRows[i]))
       /\ Len(KeyColumn(FileRows[i - 1])) < Len(KeyColumn(FileRows[i]))

(***************************************************************************)
(* C4: the check fails fast.                                               *)
(***************************************************************************)
\* The rows whose key column is less than the key column of the row before.
Violations ==
  {i \in 2..Len(FileRows) :
     /\ HasKeyColumn(FileRows[i - 1])
     /\ HasKeyColumn(FileRows[i])
     /\ KeyLess(KeyColumn(FileRows[i]), KeyColumn(FileRows[i - 1]))}

FirstViolation == CHOOSE i \in Violations : \A j \in Violations : i <= j

\* The ordering error was raised at row i: it carries the row's bytes, lb and
\* col_pos are still those of row i, and nothing was written.
UnorderedRaisedAt(i) ==
  /\ pc = "error"
  /\ err = [kind |-> "Unordered", row |-> FileRows[i]]
  /\ lb = RowOffset(FileRows, i)
  /\ col_pos[1] = lb
  /\ col_pos[Len(col_pos)] = lb + Len(FileRows[i]) + 1
  /\ out = <<>>

\* C4 as claimed: when some row's key column is less than that of the row
\* before it, the check ends with the ordering error at the first such row.
CheckFailsAtFirstViolation ==
  (Terminated /\ config.check /\ Violations # {}) =>
    UnorderedRaisedAt(FirstViolation)

\* C4 as amended: the same, when every row before the first such row has the
\* key column.
CheckFailsFast ==
  (/\ Terminated /\ config.check /\ Violations # {}
   /\ \A j \in 1..(FirstViolation - 1) : HasKeyColumn(FileRows[j])) =>
    UnorderedRaisedAt(FirstViolation)

\* The ordering error was raised at a row that is not the last, and the last
\* row lacks the key column.
CheckFailsFastWitness ==
  /\ pc = "error" /\ config.check /\ err.kind = "Unordered"
  /\ Violations # {}
  /\ FirstViolation < Len(FileRows)
  /\ ~HasKeyColumn(FileRows[Len(FileRows)])

(***************************************************************************)
(* C6: the keys are independent.                                           *)
(***************************************************************************)
RECURSIVE OutputsOf(_, _)
\* What the first n keys write, each run alone, one after the other.
OutputsOf(ks, n) ==
  IF n = 0 THEN <<>> ELSE OutputsOf(ks, n - 1) \o Run(ks[n]).out

\* The keys whose run, alone, raises an error.
Failing == {j \in 1..Len(keys) : Run(keys[j]).kind = "throw"}
FirstFailing == CHOOSE j \in Failing : \A m \in Failing : j <= m

\* C6 as claimed: the output of the keys run one after another is what each
\* writes when run alone, in the order of the keys.
KeysIndependent == Terminated => out = OutputsOf(keys, Len(keys))

\* C6 as amended: the same up to and including the first key whose run
\* raises an error, which ends the program.
KeysIndependentUntilError ==
  Terminated =>
    IF Failing = {}
    THEN pc = "done" /\ out = OutputsOf(keys, Len(keys))
    ELSE /\ pc = "error"
         /\ ki = FirstFailing
         /\ err = Run(keys[FirstFailing]).err
         /\ out = OutputsOf(keys, FirstFailing)

\* Two different keys were run and each wrote rows.
KeysIndependentWitness ==
  /\ pc = "done" /\ Len(keys) = 2 /\ keys[1] # keys[2]
  /\ Run(keys[1]).out # <<>>
  /\ Run(keys[2]).out # <<>>
  /\ Run(keys[1]).out # Run(keys[2]).out

(***************************************************************************)
(* C8: Compare orders byte strings by their transformed bytes, with the    *)
(* sign of other - self: positive exactly when self sorts before other     *)
(* (a shorter string before its extensions), zero exactly when the         *)
(* transformed strings are equal, negative exactly when self sorts after   *)
(* other; Compare(a, b) and Compare(b, a) have opposite signs.             *)
(***************************************************************************)
Sign(n) == IF n > 0 THEN 1 ELSE IF n < 0 THEN -1 ELSE 0

RowAt(p) ==
  CHOOSE i \in 1..Len(FileRows) :
    /\ RowOffset(FileRows, i) <= p
    /\ p <= RowOffset(FileRows, i) + Len(FileRows[i])

RECURSIVE ColumnStart(_, _, _)
\* Where column j of the row at offset first starts; column Len(cs) + 1 is
\* the position after the row's end.
ColumnStart(cs, first, j) ==
  IF j = 1 THEN first ELSE ColumnStart(cs, first, j - 1) + Len(cs[j - 1]) + 1

ColumnStarts(row, first) ==
  [j \in 1..(Len(Columns(row)) + 1) |-> ColumnStart(Columns(row), first, j)]

PivotIndependent ==
  scan.done =>
    LET i == RowAt(scan.pos)
        row == FileRows[i]
        first == RowOffset(FileRows, i)
        cols == scan.at.col_pos
    IN  /\ scan.at.first = first
        /\ scan.at.last = first + Len(row)
        /\ Bytes(scan.at.first, scan.at.last) = row
        /\ cols = ColumnStarts(row, first)
        /\ \A j \in 1..(Len(cols) - 1) : cols[j] < cols[j + 1]
        /\ scan.from = scan.at
        /\ scan.forward = scan.column
        /\ IF HasKeyColumn(row)
           THEN /\ scan.column = [kind |-> "ok", bytes |-> KeyColumn(row)]
                /\ \A n \in 1..Len(scan.column.bytes) :
                     scan.column.bytes[n] \notin {col_sep, row_sep}
           ELSE scan.column = [kind |-> "throw", bytes |-> row]

\* The pivot is a column separator of a row in the middle of the file, the
\* window is narrower than the file, and the key column is the second.
PivotWitness ==
  /\ scan.done /\ config.col = 2
  /\ At(scan.pos) = col_sep
  /\ scan.lo > 0 /\ scan.hi < Len(buf)
  /\ ~NotEnoughColumns(scan.at.col_pos, config.col)

====
